---- MODULE Spec2Model ----
(***************************************************************************)
(* Model of the crawl driver (crawler.py: Crawler.start_crawl,             *)
(* Crawler.check_crawl_status, Crawler.save_crawl_results, main) and of    *)
(* the bucket uploader (upload_data.py: upload_files_to_r2).               *)
(*                                                                         *)
(* The remote crawl service, the file system and the object store are the  *)
(* environment: every answer they can give is drawn with \E.               *)
(*   Spec        one run of crawler.main                                   *)
(*   UploadSpec  one run of upload_data.upload_files_to_r2                 *)
(***************************************************************************)
EXTENDS Integers, Sequences, FiniteSets, TLC

\* ---------------------------------------------------------------- bounds
\* Most status fetches one modelled run makes.
MaxPolls == 2
\* Longest `data` list of a status snapshot.
MaxPages == 2
\* Most *.html files in the upload directory.
MaxFiles == 2
\* Most runs of upload_data.py over the same directory and bucket.
MaxRuns == 2
\* Most calls of get_settings in one process.
MaxCalls == 2

\* ------------------------------------------------------- program constants
\* asyncio.sleep(10) of the `scraping` branch.
ScrapingSleep == 10
\* asyncio.sleep(10) of the else branch.
UnknownSleep == 10

VARIABLES
    \* ---- crawler.main
    pc,            \* position of main: start, poll, sleep, save, done, raised (idle: not run)
    crawl_result,  \* what app.async_crawl_url did (kind "none": not called)
    job_id,        \* main's job_id (None until start_crawl returned one)
    submits,       \* number of app.async_crawl_url calls
    fetches,       \* number of app.check_crawl_status calls
    fetch_ids,     \* the job ids those calls were made with
    sleeps,        \* number of asyncio.sleep calls
    slept,         \* argument of the latest asyncio.sleep call (0: none yet)
    nonterminal,   \* fetched snapshots whose status is not completed/failed
    status_data,   \* what the latest check_crawl_status returned (data elided)
    log,           \* messages logged by main and its callees, oldest first
    exc,           \* exception that left main uncaught ("none" if none)
    \* ---- Crawler.save_crawl_results
    save_calls,    \* number of save_crawl_results calls
    dir_exists,    \* the output directory exists
    crawl_data,    \* the list save_crawl_results was called with
    outcomes,      \* what happened to each record processed so far
    saved_count,   \* save_crawl_results' saved_count
    uuids,         \* number of uuid.uuid4() calls
    files,         \* files in the output directory
    returned,      \* value save_crawl_results returned (-1: has not returned)
    \* ---- upload_data.upload_files_to_r2
    u_pc,          \* position: start, check_dir, client, scan, loop, done (idle: not run)
    r2,            \* settings.r2_* values
    src_is_dir,    \* CRAWL_OUTPUT_DIR.is_dir()
    src_files,     \* the files in and below CRAWL_OUTPUT_DIR
    client,        \* boto3.client: "none" (not called), "created", "failed"
    scanned,       \* CRAWL_OUTPUT_DIR.glob: "no" (not called), "ok", "oserror"
    files_to_upload, \* the list the glob gave
    attempts,      \* the upload_file calls so far: file and result, in order
    success_count, \* upload_files_to_r2's success_count
    failure_count, \* upload_files_to_r2's failure_count
    bucket,        \* objects in the bucket
    summary,       \* the counts of the upload summary (<<-1, -1>>: not logged)
    u_log,         \* messages logged by upload_files_to_r2, oldest first
    history,       \* per earlier run of upload_data.py: its summary, and the
                   \* bucket and the local files it left
    \* ---- settings.get_settings
    s_pc,          \* "run" while the process that calls get_settings runs (idle: not run)
    environ,       \* the environment variables (with .env) Settings() reads
    cache,         \* what lru_cache holds for get_settings()
    calls,         \* calls of get_settings so far
    env_reads,     \* times Settings() read the environment
    read_env,      \* the environment as Settings() last read it
    failures,      \* calls of get_settings that raised
    values,        \* the Settings values get_settings has returned
    last           \* outcome of the latest call: the value returned or the error

crawl_vars == <<pc, crawl_result, job_id, submits, fetches, fetch_ids, sleeps, slept,
                nonterminal, status_data, log, exc, save_calls, dir_exists,
                crawl_data, outcomes, saved_count, uuids, files, returned>>
upload_vars == <<u_pc, r2, src_is_dir, src_files, client, scanned,
                 files_to_upload, attempts, success_count, failure_count,
                 bucket, summary, u_log, history>>
settings_vars == <<s_pc, environ, cache, calls, env_reads, read_env, failures,
                   values, last>>
vars == <<crawl_vars, upload_vars, settings_vars>>

\* Python's None, for a job id.
None == "None"

\* ------------------------------------------------------------ environment
\* A page record of the status response: rawHtml absent, empty or text;
\* metadata absent, null, an object without sourceURL, or one with it.
RawHtmls == {"absent", "", "html"}
Metadatas == {"absent", "null", "no_sourceURL", "url"}
PageRecords == [rawHtml : RawHtmls, metadata : Metadatas]

RECURSIVE SeqsUpTo(_, _)
SeqsUpTo(S, n) ==
    IF n = 0 THEN {<<>>}
    ELSE LET shorter == SeqsUpTo(S, n - 1)
         IN  shorter \cup {Append(s, x) : s \in {t \in shorter : Len(t) = n - 1}, x \in S}

DataLists == SeqsUpTo(PageRecords, MaxPages)

\* What app.check_crawl_status can do: raise, return an empty dict, or
\* return a snapshot (a non-empty dict) whose status is one of the four
\* documented tags, another string, or missing, with or without `data`.
Statuses == {"completed", "failed", "scraping", "pending", "other", "missing"}
RaiseResponse == [kind |-> "raise", status |-> "missing", has_data |-> FALSE, data |-> <<>>]
EmptyResponse == [kind |-> "empty", status |-> "missing", has_data |-> FALSE, data |-> <<>>]
Snapshots ==
    {[kind |-> "snapshot", status |-> s, has_data |-> h, data |-> d] :
        s \in Statuses, h \in BOOLEAN, d \in DataLists} \
    {[kind |-> "snapshot", status |-> s, has_data |-> FALSE, data |-> d] :
        s \in Statuses, d \in DataLists \ {<<>>}}
StatusResponses == {RaiseResponse, EmptyResponse} \cup Snapshots

\* What app.async_crawl_url can do: raise, or return a dict whose `id` is
\* absent, empty or a job id.
JobIds == {"abc123", "xyz789"}
SubmitResponses ==
    {[kind |-> "raise", id |-> "absent"]} \cup
    [kind : {"response"}, id : {"absent", ""} \cup JobIds]

\* Results of open(filepath, "w") followed by f.write(html_content): both
\* succeed, open raises IOError, write raises IOError, write raises another
\* Exception.
WriteResults == {"ok", "open_ioerror", "write_ioerror", "write_error"}

\* ------------------------------------------------------- Crawler methods
\* start_crawl without the check of the id: an empty id is returned as is.
start_crawl_unchecked(resp) ==
    IF resp.kind = "raise" THEN None
    ELSE IF resp.id = "absent" THEN None
    ELSE resp.id

\* Crawler.start_crawl: the job id, or None when the call raised or the
\* response's `id` is absent or empty.
start_crawl(resp) ==
    IF resp.kind = "raise" THEN None
    ELSE IF resp.id \in {"absent", ""} THEN None
    ELSE resp.id

\* What start_crawl logs.
start_crawl_log(resp) ==
    IF resp.kind = "raise" THEN <<"start_exception">>
    ELSE IF resp.id \in {"absent", ""} THEN <<"start_no_id">>
    ELSE <<"job_started">>

\* Crawler.check_crawl_status: the response itself, or None when the
\* call raised.
NoStatus == [kind |-> "None", status |-> "missing", has_data |-> FALSE, data |-> <<>>]
check_crawl_status(resp) ==
    IF resp.kind = "raise" THEN NoStatus ELSE resp

\* Python falsiness of a job id (`if not job_id`).
Falsy(id) == id \in {None, ""}

\* Python truth value of status_data: None and an empty dict are falsy.
\* Only None counts as no status.
Truthy_is_not_none(sd) == sd.kind # "None"

Truthy(sd) == sd.kind = "snapshot"

\* Variants of LoopBranch, each with one branch of the loop gone wrong:
\* `failed` falls through to the else branch and is polled again;
LoopBranch_failed_repolls(sd) ==
    IF sd.kind # "snapshot" THEN "no_status"
    ELSE IF sd.status = "completed"
         THEN (IF Len(sd.data) > 0 THEN "save" ELSE "no_data")
    ELSE IF sd.status = "scraping" THEN "scraping"
    ELSE "unknown"

\* a missing status_data is reported as a failed job;
LoopBranch_none_as_failed(sd) ==
    IF sd.kind # "snapshot" THEN "failed"
    ELSE IF sd.status = "completed"
         THEN (IF Len(sd.data) > 0 THEN "save" ELSE "no_data")
    ELSE IF sd.status = "failed" THEN "failed"
    ELSE IF sd.status = "scraping" THEN "scraping"
    ELSE "unknown"

\* the else branch breaks instead of sleeping;
LoopBranch_unknown_breaks(sd) ==
    IF sd.kind # "snapshot" THEN "no_status"
    ELSE IF sd.status = "completed"
         THEN (IF Len(sd.data) > 0 THEN "save" ELSE "no_data")
    ELSE IF sd.status = "scraping" THEN "scraping"
    ELSE "failed"

\* the pages of a failed job are saved too.
LoopBranch_failed_saves(sd) ==
    IF sd.kind # "snapshot" THEN "no_status"
    ELSE IF sd.status \in {"completed", "failed"}
         THEN (IF Len(sd.data) > 0 THEN "save"
               ELSE IF sd.status = "failed" THEN "failed" ELSE "no_data")
    ELSE IF sd.status = "scraping" THEN "scraping"
    ELSE "unknown"

\* A completed job is always persisted, whatever its data.
LoopBranch_empty_saves(sd) ==
    IF sd.kind # "snapshot" THEN "no_status"
    ELSE IF sd.status = "completed" THEN "save"
    ELSE IF sd.status = "failed" THEN "failed"
    ELSE IF sd.status = "scraping" THEN "scraping"
    ELSE "unknown"

\* A job still scraping ends the loop.
LoopBranch_scraping_breaks(sd) ==
    IF sd.kind # "snapshot" THEN "no_status"
    ELSE IF sd.status = "completed"
         THEN (IF Len(sd.data) > 0 THEN "save" ELSE "no_data")
    ELSE IF sd.status \in {"failed", "scraping"} THEN "failed"
    ELSE "unknown"

\* `pending` shares the branch of `scraping`.
LoopBranch_pending_as_scraping(sd) ==
    IF sd.kind # "snapshot" THEN "no_status"
    ELSE IF sd.status = "completed"
         THEN (IF Len(sd.data) > 0 THEN "save" ELSE "no_data")
    ELSE IF sd.status = "failed" THEN "failed"
    ELSE IF sd.status \in {"scraping", "pending"} THEN "scraping"
    ELSE "unknown"

\* The branch one iteration of main's while loop takes on status_data.
LoopBranch(sd) ==
    IF ~Truthy(sd) THEN "no_status"
    ELSE IF sd.status = "completed"
         THEN (IF Len(sd.data) > 0 THEN "save" ELSE "no_data")
    ELSE IF sd.status = "failed" THEN "failed"
    ELSE IF sd.status = "scraping" THEN "scraping"
    ELSE "unknown"

\* What main logs on each branch, after check_crawl_status's own message.
BranchLog(branch) ==
    CASE branch = "no_status" -> <<"status_unavailable">>
      [] branch = "save"      -> <<"job_completed">>
      [] branch = "no_data"   -> <<"job_completed", "no_data_returned">>
      [] branch = "failed"    -> <<"job_failed">>
      [] branch = "scraping"  -> <<>>
      [] branch = "unknown"   -> <<"unknown_status">>

\* The interval main sleeps on a branch that re-polls.
SleepFor(branch) ==
    IF branch = "scraping" THEN ScrapingSleep ELSE UnknownSleep

\* status_data as main keeps it; the page list is kept in crawl_data only
\* when it is handed to save_crawl_results.
Elide(sd) == [kind |-> sd.kind, status |-> sd.status, has_data |-> sd.has_data]

\* Variants of RecordOutcome: only an absent rawHtml is skipped, an empty
\* one is written;
RecordOutcome_empty_written(page_data, w) ==
    IF page_data.metadata = "null" THEN "raise"
    ELSE IF page_data.rawHtml = "absent" THEN "skipped"
    ELSE IF w = "ok" THEN "saved"
    ELSE IF w \in {"open_ioerror", "write_ioerror"} THEN "ioerror"
    ELSE "error"

\* only IOError is caught, another exception of the write leaves the loop.
RecordOutcome_error_escapes(page_data, w) ==
    IF page_data.metadata = "null" THEN "raise"
    ELSE IF page_data.rawHtml \in {"absent", ""} THEN "skipped"
    ELSE IF w = "ok" THEN "saved"
    ELSE IF w \in {"open_ioerror", "write_ioerror"} THEN "ioerror"
    ELSE "raise"

\* One record of save_crawl_results' loop: reading the fields raises on a
\* null metadata; a record without content is skipped; otherwise the file
\* is written.
RecordOutcome(page_data, w) ==
    IF page_data.metadata = "null" THEN "raise"
    ELSE IF page_data.rawHtml \in {"absent", ""} THEN "skipped"
    ELSE IF w = "ok" THEN "saved"
    ELSE IF w \in {"open_ioerror", "write_ioerror"} THEN "ioerror"
    ELSE "error"

\* The file name taken from the record's source URL (0), or from the
\* placeholder unknown_url_<i> when it has none (-i).
Filename_from_url(uuid, page_data, i) ==
    IF page_data.metadata = "url" THEN 0 ELSE 0 - i

\* filename = f"page_{uuid.uuid4()}.html": the name is the fresh uuid alone
\* (the uuid-th value uuid4 has given; uuid4 is taken never to repeat).
Filename(uuid, page_data, i) == uuid

\* The file the write leaves behind: none when open failed, a complete one
\* when the write succeeded, a truncated one when the write raised.
\* open(..., "w") replaces a file of the same name.
FilesAfter(fs, name, page, w) ==
    IF w = "open_ioerror" THEN fs
    ELSE {f \in fs : f.name # name}
         \cup {[name |-> name, page |-> page, complete |-> (w = "ok")]}

\* What check_crawl_status logs above debug level.
check_crawl_status_log(resp) ==
    IF resp.kind = "raise" THEN <<"status_exception">> ELSE <<>>

\* A snapshot that is neither `completed` nor `failed`.
NonTerminal(resp) ==
    resp.kind = "snapshot" /\ resp.status \notin {"completed", "failed"}

\* ------------------------------------------------------------ settings.py
\* The environment variables of the fields without default, and the one of
\* r2_bucket_name.
RequiredVars ==
    {"FIRECRAWL_API_KEY", "R2_ACCESS_KEY_ID", "R2_SECRET_ACCESS_KEY", "R2_ACCOUNT_ID"}
EnvVars == RequiredVars \cup {"R2_BUCKET_NAME"}
\* A variable is absent or holds one of two values.
EnvValues == {"absent", "a", "b"}
Environments == [EnvVars -> EnvValues]
Unread == [k \in EnvVars |-> "absent"]

\* Nothing cached, nothing returned yet.
NoSettings == [kind |-> "none", fields |-> Unread]
\* pydantic's error for a required field without value.
ValidationError == [kind |-> "ValidationError", fields |-> Unread]

\* Settings(): every field is read from its variable; a field without
\* default whose variable is absent fails validation; r2_bucket_name
\* falls back to its default.
Settings(env) ==
    IF \E k \in RequiredVars : env[k] = "absent"
    THEN ValidationError
    ELSE [kind |-> "Settings",
          fields |-> [k \in EnvVars |->
                        IF k = "R2_BUCKET_NAME" /\ env[k] = "absent"
                        THEN "test-bucket" ELSE env[k]]]

\* get_settings without lru_cache: every call constructs.
get_settings_uncached(cch, env) ==
    LET s == Settings(env) IN
    [value |-> s, cache |-> IF s.kind = "Settings" THEN s ELSE cch, read |-> TRUE]

\* get_settings under lru_cache: a cached value is returned as it is;
\* otherwise Settings() is constructed, and cached unless it raised.
get_settings(cch, env) ==
    IF cch.kind = "Settings"
    THEN [value |-> cch, cache |-> cch, read |-> FALSE]
    ELSE LET s == Settings(env) IN
         [value |-> s, cache |-> IF s.kind = "Settings" THEN s ELSE cch, read |-> TRUE]

\* No process is calling get_settings.
SettingsIdle ==
    /\ s_pc = "idle"
    /\ environ = Unread
    /\ cache = NoSettings
    /\ calls = 0
    /\ env_reads = 0
    /\ read_env = Unread
    /\ failures = 0
    /\ values = {}
    /\ last = NoSettings

\* ------------------------------------------------------------ crawler.main
\* The uploader is not running.
UploadIdle ==
    /\ u_pc = "idle"
    /\ r2 = [account_id |-> "acct", bucket_name |-> "test-bucket",
             access_key_id |-> "key", secret_access_key |-> "secret"]
    /\ src_is_dir = FALSE
    /\ src_files = {}
    /\ client = "none"
    /\ scanned = "no"
    /\ files_to_upload = <<>>
    /\ attempts = <<>>
    /\ success_count = 0
    /\ failure_count = 0
    /\ bucket = {}
    /\ summary = <<-1, -1>>
    /\ u_log = <<>>
    /\ history = <<>>

InitCrawl ==
    /\ pc = "start"
    /\ crawl_result = [kind |-> "none", id |-> "absent"]
    /\ job_id = None
    /\ submits = 0
    /\ fetches = 0
    /\ fetch_ids = {}
    /\ sleeps = 0
    /\ slept = 0
    /\ nonterminal = 0
    /\ status_data = Elide(NoStatus)
    /\ log = <<>>
    /\ exc = "none"
    /\ save_calls = 0
    /\ dir_exists = FALSE
    /\ crawl_data = <<>>
    /\ outcomes = <<>>
    /\ saved_count = 0
    /\ uuids = 0
    /\ files = {}
    /\ returned = -1

\* main up to the while loop: start_crawl, then return if it gave no id.
StartCrawl ==
    /\ pc = "start"
    /\ \E resp \in SubmitResponses :
         LET id == start_crawl(resp) IN
         /\ submits' = submits + 1
         /\ crawl_result' = resp
         /\ job_id' = id
         /\ IF Falsy(id)
            THEN /\ log' = log \o start_crawl_log(resp) \o <<"start_failed">>
                 /\ pc' = "done"
            ELSE /\ log' = log \o start_crawl_log(resp) \o <<"monitoring">>
                 /\ pc' = "poll"
    /\ UNCHANGED <<fetches, fetch_ids, sleeps, slept, nonterminal, status_data,
                   exc, save_calls, dir_exists, crawl_data, outcomes,
                   saved_count, uuids, files, returned>>
    /\ UNCHANGED upload_vars
    /\ UNCHANGED settings_vars

\* One iteration of the while loop, up to its break, its sleep or the first
\* record of save_crawl_results (whose mkdir succeeds or raises).
Poll ==
    /\ pc = "poll"
    /\ fetches < MaxPolls
    /\ \E resp \in StatusResponses, mkdir \in {"ok", "raise"} :
         LET sd == check_crawl_status(resp)
             branch == LoopBranch(sd)
             said == log \o check_crawl_status_log(resp) \o BranchLog(branch)
         IN
         /\ fetches' = fetches + 1
         /\ fetch_ids' = fetch_ids \cup {job_id}
         /\ status_data' = Elide(sd)
         /\ nonterminal' = nonterminal + (IF NonTerminal(resp) THEN 1 ELSE 0)
         /\ IF branch \in {"scraping", "unknown"}
            THEN /\ sleeps' = sleeps + 1
                 /\ slept' = SleepFor(branch)
                 /\ pc' = "sleep"
                 /\ log' = said
                 /\ UNCHANGED <<exc, save_calls, dir_exists, crawl_data>>
            ELSE IF branch = "save"
            THEN /\ save_calls' = save_calls + 1
                 /\ crawl_data' = sd.data
                 /\ IF mkdir = "ok"
                    THEN /\ dir_exists' = TRUE
                         /\ log' = said \o <<"saving">>
                         /\ pc' = "save"
                         /\ exc' = exc
                    ELSE /\ dir_exists' = dir_exists
                         /\ log' = said
                         /\ pc' = "raised"
                         /\ exc' = "OSError"
                 /\ UNCHANGED <<sleeps, slept>>
            ELSE /\ pc' = "done"
                 /\ log' = said
                 /\ UNCHANGED <<sleeps, slept, exc, save_calls, dir_exists, crawl_data>>
    /\ UNCHANGED <<crawl_result, job_id, submits, outcomes, saved_count, uuids,
                   files, returned>>
    /\ UNCHANGED upload_vars
    /\ UNCHANGED settings_vars

\* asyncio.sleep returns: back to the top of the loop.
Wake ==
    /\ pc = "sleep"
    /\ pc' = "poll"
    /\ UNCHANGED <<crawl_result, job_id, submits, fetches, fetch_ids, sleeps, slept,
                   nonterminal, status_data, log, exc, save_calls, dir_exists,
                   crawl_data, outcomes, saved_count, uuids, files, returned>>
    /\ UNCHANGED upload_vars
    /\ UNCHANGED settings_vars

\* One iteration of save_crawl_results' for loop.
SaveRecord ==
    /\ pc = "save"
    /\ Len(outcomes) < Len(crawl_data)
    /\ \E w \in WriteResults :
         LET i == Len(outcomes) + 1
             o == RecordOutcome(crawl_data[i], w)
         IN
         /\ outcomes' = Append(outcomes, o)
         /\ IF o = "raise"
            THEN /\ pc' = "raised"
                 /\ exc' = "AttributeError"
                 /\ UNCHANGED <<saved_count, uuids, files>>
            ELSE IF o = "skipped"
            THEN UNCHANGED <<pc, exc, saved_count, uuids, files>>
            ELSE /\ uuids' = uuids + 1
                 /\ files' = FilesAfter(files, Filename(uuids + 1, crawl_data[i], i), i, w)
                 /\ saved_count' = saved_count + (IF o = "saved" THEN 1 ELSE 0)
                 /\ UNCHANGED <<pc, exc>>
    /\ UNCHANGED <<crawl_result, job_id, submits, fetches, fetch_ids, sleeps, slept,
                   nonterminal, status_data, log, save_calls, dir_exists,
                   crawl_data, returned>>
    /\ UNCHANGED upload_vars
    /\ UNCHANGED settings_vars

\* save_crawl_results logs its summary and returns; main breaks.
SaveReturn ==
    /\ pc = "save"
    /\ Len(outcomes) = Len(crawl_data)
    /\ log' = Append(log, "save_summary")
    /\ returned' = saved_count
    /\ pc' = "done"
    /\ UNCHANGED <<crawl_result, job_id, submits, fetches, fetch_ids, sleeps, slept,
                   nonterminal, status_data, exc, save_calls, dir_exists,
                   crawl_data, outcomes, saved_count, uuids, files>>
    /\ UNCHANGED upload_vars
    /\ UNCHANGED settings_vars

Init == InitCrawl /\ UploadIdle /\ SettingsIdle

Next == StartCrawl \/ Poll \/ Wake \/ SaveRecord \/ SaveReturn

Spec == Init /\ [][Next]_vars

\* ------------------------------------------ upload_data.upload_files_to_r2
\* A string built from parts is empty only if every part is.
StrEmpty(parts) == \A k \in 1 .. Len(parts) : parts[k] = ""

\* endpoint_url = f"https://{settings.r2_account_id}.r2.cloudflarestorage.com"
EndpointUrl(account_id) == <<"https://", account_id, ".r2.cloudflarestorage.com">>

\* The configuration check of upload_files_to_r2.
CredentialsMissing(cfg) ==
    \/ StrEmpty(EndpointUrl(cfg.account_id))
    \/ cfg.bucket_name = ""
    \/ cfg.access_key_id = ""
    \/ cfg.secret_access_key = ""

\* The directory check left out.
DirectoryMissing_unchecked(is_dir) == FALSE

\* The directory check of upload_files_to_r2.
DirectoryMissing(is_dir) == ~is_dir

\* The paths that can exist in and below CRAWL_OUTPUT_DIR: page files and
\* one other file directly in it, and one page file in a subdirectory.
\* A name is a stem and a suffix.
SrcPaths ==
    {[parent |-> ".", name |-> <<n, "html">>] : n \in 1 .. MaxFiles}
        \cup {[parent |-> ".", name |-> <<1, "txt">>],
              [parent |-> "sub", name |-> <<1, "html">>]}

\* The glob descends into subdirectories.
HtmlFiles_recursive(fs) == {f \in fs : f.name[2] = "html"}

\* Files that CRAWL_OUTPUT_DIR.glob("*.html") matches: the pattern has no
\* directory part, so only entries of the directory itself are listed.
HtmlFiles(fs) == {f \in fs : f.parent = "." /\ f.name[2] = "html"}

\* Every order the glob can list a set of files in.
Orders(fs) ==
    {q \in [1 .. Cardinality(fs) -> fs] : \A a, b \in 1 .. Cardinality(fs) : a # b => q[a] # q[b]}

\* Every file is stored under one fixed key.
ObjectKey_constant(file_path) == <<0, "html">>

\* object_key = file_path.name
ObjectKey(file_path) == file_path.name

\* s3_client.upload_file succeeded: the object under the key is created or
\* replaced; its body is the content of the local file.
PutObject(objects, file_path) ==
    {o \in objects : o.key # ObjectKey(file_path)}
        \cup {[key |-> ObjectKey(file_path), content_type |-> "text/html",
               body |-> file_path]}

\* What s3_client.upload_file can do: succeed, raise ClientError, raise
\* FileNotFoundError (the file vanished), raise another exception.
UploadResults == {"ok", "ClientError", "FileNotFoundError", "Exception"}

\* A vanished file is logged but not counted.
Counted_vanished_uncounted(res) ==
    IF res = "ok" THEN "success"
    ELSE IF res = "FileNotFoundError" THEN "none"
    ELSE "failure"

\* The counter one upload attempt increments.
Counted(res) == IF res = "ok" THEN "success" ELSE "failure"

\* What the loop logs for one attempt.
UploadLog(res) ==
    CASE res = "ok" -> "uploaded"
      [] res = "ClientError" -> "upload_failed"
      [] res = "FileNotFoundError" -> "file_not_found"
      [] res = "Exception" -> "upload_unexpected_error"

\* crawler.main is not running.
CrawlIdle ==
    /\ pc = "idle"
    /\ crawl_result = [kind |-> "none", id |-> "absent"]
    /\ job_id = None
    /\ submits = 0
    /\ fetches = 0
    /\ fetch_ids = {}
    /\ sleeps = 0
    /\ slept = 0
    /\ nonterminal = 0
    /\ status_data = Elide(NoStatus)
    /\ log = <<>>
    /\ exc = "none"
    /\ save_calls = 0
    /\ dir_exists = FALSE
    /\ crawl_data = <<>>
    /\ outcomes = <<>>
    /\ saved_count = 0
    /\ uuids = 0
    /\ files = {}
    /\ returned = -1

\* The settings a process can have loaded (each value empty or not), and
\* the directory it finds.
InitUpload ==
    /\ u_pc = "start"
    /\ r2 \in [account_id : {"", "acct"}, bucket_name : {"", "test-bucket"},
                access_key_id : {"", "key"}, secret_access_key : {"", "secret"}]
    /\ src_is_dir \in BOOLEAN
    /\ src_files \in {fs \in SUBSET SrcPaths :
                         Cardinality(HtmlFiles(fs)) <= MaxFiles /\ (~src_is_dir => fs = {})}
    /\ client = "none"
    /\ scanned = "no"
    /\ files_to_upload = <<>>
    /\ attempts = <<>>
    /\ success_count = 0
    /\ failure_count = 0
    /\ bucket = {}
    /\ summary = <<-1, -1>>
    /\ u_log = <<>>
    /\ history = <<>>

\* Lines 21-32: the configuration check.
CheckConfig ==
    /\ u_pc = "start"
    /\ IF CredentialsMissing(r2)
       THEN /\ u_log' = Append(u_log, "missing_config")
            /\ u_pc' = "done"
       ELSE /\ u_log' = u_log
            /\ u_pc' = "check_dir"
    /\ UNCHANGED <<r2, src_is_dir, src_files, client, scanned, files_to_upload,
                   attempts, success_count, failure_count, bucket, summary>>
    /\ UNCHANGED history
    /\ UNCHANGED crawl_vars
    /\ UNCHANGED settings_vars

\* Lines 34-36: the directory check.
CheckDir ==
    /\ u_pc = "check_dir"
    /\ IF DirectoryMissing(src_is_dir)
       THEN /\ u_log' = Append(u_log, "dir_not_found")
            /\ u_pc' = "done"
       ELSE /\ u_log' = Append(u_log, "connecting")
            /\ u_pc' = "client"
    /\ UNCHANGED <<r2, src_is_dir, src_files, client, scanned, files_to_upload,
                   attempts, success_count, failure_count, bucket, summary>>
    /\ UNCHANGED history
    /\ UNCHANGED crawl_vars
    /\ UNCHANGED settings_vars

\* Lines 39-51: boto3.client returns a client or raises.
CreateClient ==
    /\ u_pc = "client"
    /\ \E res \in {"created", "failed"} :
         /\ client' = res
         /\ IF res = "created"
            THEN /\ u_log' = Append(u_log, "client_created")
                 /\ u_pc' = "scan"
            ELSE /\ u_log' = Append(u_log, "client_failed")
                 /\ u_pc' = "done"
    /\ UNCHANGED <<r2, src_is_dir, src_files, scanned, files_to_upload,
                   attempts, success_count, failure_count, bucket, summary>>
    /\ UNCHANGED history
    /\ UNCHANGED crawl_vars
    /\ UNCHANGED settings_vars

\* Lines 53-67: the glob lists the *.html files in some order or raises
\* OSError; an empty list ends the run.
Scan ==
    /\ u_pc = "scan"
    /\ \/ /\ scanned' = "oserror"
          /\ files_to_upload' = files_to_upload
          /\ u_log' = u_log \o <<"scanning", "dir_access_error">>
          /\ u_pc' = "done"
       \/ \E listing \in Orders(HtmlFiles(src_files)) :
            /\ scanned' = "ok"
            /\ files_to_upload' = listing
            /\ IF Len(listing) = 0
               THEN /\ u_log' = u_log \o <<"scanning", "no_html_files">>
                    /\ u_pc' = "done"
               ELSE /\ u_log' = u_log \o <<"scanning", "found_files">>
                    /\ u_pc' = "loop"
    /\ UNCHANGED <<r2, src_is_dir, src_files, client, attempts, success_count,
                   failure_count, bucket, summary>>
    /\ UNCHANGED history
    /\ UNCHANGED crawl_vars
    /\ UNCHANGED settings_vars

\* Lines 69-90: one iteration of the upload loop.
Upload ==
    /\ u_pc = "loop"
    /\ Len(attempts) < Len(files_to_upload)
    /\ \E res \in UploadResults :
         LET file_path == files_to_upload[Len(attempts) + 1] IN
         /\ attempts' = Append(attempts, [file |-> file_path, result |-> res])
         /\ bucket' = IF res = "ok" THEN PutObject(bucket, file_path) ELSE bucket
         /\ success_count' = success_count + (IF Counted(res) = "success" THEN 1 ELSE 0)
         /\ failure_count' = failure_count + (IF Counted(res) = "failure" THEN 1 ELSE 0)
         /\ u_log' = Append(u_log, UploadLog(res))
    /\ UNCHANGED <<u_pc, r2, src_is_dir, src_files, client, scanned,
                   files_to_upload, summary>>
    /\ UNCHANGED history
    /\ UNCHANGED crawl_vars
    /\ UNCHANGED settings_vars

\* Lines 92-95: the summary after the loop.
Summary ==
    /\ u_pc = "loop"
    /\ Len(attempts) = Len(files_to_upload)
    /\ summary' = <<success_count, failure_count>>
    /\ u_log' = Append(u_log, "upload_summary")
    /\ u_pc' = "done"
    /\ UNCHANGED <<r2, src_is_dir, src_files, client, scanned, files_to_upload,
                   attempts, success_count, failure_count, bucket>>
    /\ UNCHANGED history
    /\ UNCHANGED crawl_vars
    /\ UNCHANGED settings_vars

\* upload_data.py is run again: a new call of upload_files_to_r2 with the
\* same settings, over the directory and the bucket the last run left.
Rerun ==
    /\ u_pc = "done"
    /\ Len(history) < MaxRuns - 1
    /\ history' = Append(history, [summary |-> summary, bucket |-> bucket,
                                    src_files |-> src_files])
    /\ u_pc' = "start"
    /\ client' = "none"
    /\ scanned' = "no"
    /\ files_to_upload' = <<>>
    /\ attempts' = <<>>
    /\ success_count' = 0
    /\ failure_count' = 0
    /\ summary' = <<-1, -1>>
    /\ u_log' = <<>>
    /\ UNCHANGED <<r2, src_is_dir, src_files, bucket>>
    /\ UNCHANGED crawl_vars
    /\ UNCHANGED settings_vars

UploadInit == InitUpload /\ CrawlIdle /\ SettingsIdle

UploadNext ==
    CheckConfig \/ CheckDir \/ CreateClient \/ Scan \/ Upload \/ Summary \/ Rerun

UploadSpec == UploadInit /\ [][UploadNext]_vars

\* ------------------------------------------------- settings.get_settings
\* A process starts with some environment and an empty cache.
InitSettings ==
    /\ s_pc = "run"
    /\ environ \in Environments
    /\ cache = NoSettings
    /\ calls = 0
    /\ env_reads = 0
    /\ read_env = Unread
    /\ failures = 0
    /\ values = {}
    /\ last = NoSettings

\* One call of get_settings: the one at import of settings.py or a later one.
GetSettings ==
    /\ s_pc = "run"
    /\ calls < MaxCalls
    /\ LET r == get_settings(cache, environ) IN
       /\ calls' = calls + 1
       /\ cache' = r.cache
       /\ last' = r.value
       /\ env_reads' = env_reads + (IF r.read THEN 1 ELSE 0)
       /\ read_env' = IF r.read THEN environ ELSE read_env
       /\ failures' = failures + (IF r.value.kind = "ValidationError" THEN 1 ELSE 0)
       /\ values' = IF r.value.kind = "Settings" THEN values \cup {r.value} ELSE values
    /\ UNCHANGED <<s_pc, environ>>
    /\ UNCHANGED <<crawl_vars, upload_vars>>

\* The process or its surroundings set or delete one environment variable.
SetEnv ==
    /\ s_pc = "run"
    /\ \E k \in EnvVars, v \in EnvValues :
         /\ environ[k] # v
         /\ environ' = [environ EXCEPT ![k] = v]
    /\ UNCHANGED <<s_pc, cache, calls, env_reads, read_env, failures, values, last>>
    /\ UNCHANGED <<crawl_vars, upload_vars>>

SettingsInit == InitSettings /\ CrawlIdle /\ UploadIdle

SettingsNext == GetSettings \/ SetEnv

SettingsSpec == SettingsInit /\ [][SettingsNext]_vars

\* ======================================================================
\* Properties of crawler.main (checked under Spec)
\* ======================================================================
Range(q) == {q[k] : k \in 1 .. Len(q)}
Last(q) == q[Len(q)]

\* The latest fetch gave a snapshot with a terminal status.
TerminalFetched ==
    status_data.kind = "snapshot" /\ status_data.status \in {"completed", "failed"}
\* The latest fetch gave nothing because the remote call raised.
FetchRaised == fetches > 0 /\ status_data.kind = "None"
\* The latest fetch gave a snapshot whose status is none of the four tags.
UnrecognisedFetched ==
    status_data.kind = "snapshot" /\ status_data.status \in {"other", "missing"}

\* C1 (terminal convergence): when the first snapshot with status completed
\* or failed arrives after k non-terminal snapshots, the loop has made
\* exactly k+1 fetches and k sleeps and has left the polling loop; from then
\* on there is no further fetch and no further sleep.
C1_TerminalConvergence ==
    /\ [](TerminalFetched =>
            /\ fetches = nonterminal + 1
            /\ sleeps = nonterminal
            /\ pc \in {"save", "done", "raised"})
    /\ [][TerminalFetched => fetches' = fetches /\ sleeps' = sleeps]_vars

\* A non-terminal snapshot, then a terminal one, and main has returned.
C1_Witness ==
    /\ pc = "done"
    /\ TerminalFetched
    /\ nonterminal = 1
    /\ fetches = 2
    /\ sleeps = 1

\* C2 (fetch-failure distinctness): when the remote status call raised,
\* main leaves the loop in that same iteration (it returns without a sleep,
\* a further fetch or a call of save_crawl_results), and its log tells the
\* run from one ended by a `failed` snapshot: the first logs
\* "Failed to get status" and never "Crawl job failed", the second the
\* reverse.
C2_FetchFailureDistinct ==
    /\ [](FetchRaised =>
            /\ pc = "done"
            /\ save_calls = 0
            /\ Last(log) = "status_unavailable"
            /\ "job_failed" \notin Range(log))
    /\ []((status_data.kind = "snapshot" /\ status_data.status = "failed") =>
            /\ pc = "done"
            /\ Last(log) = "job_failed"
            /\ "status_unavailable" \notin Range(log))
    /\ [][status_data'.kind = "None" /\ fetches' = fetches + 1 =>
            sleeps' = sleeps /\ pc' = "done"]_vars
    /\ [][FetchRaised => fetches' = fetches /\ sleeps' = sleeps
                          /\ save_calls' = save_calls]_vars

\* The second fetch raised, after one sleep.
C2_Witness ==
    /\ FetchRaised
    /\ fetches = 2
    /\ sleeps = 1
    /\ pc = "done"

\* C3 (unknown-status resilience): a fetched snapshot whose status is none
\* of completed, failed, scraping, pending (or is missing) does not end the
\* loop: main logs the unknown-status warning, sleeps 10, the interval of
\* the scraping branch, and is then back at the top of the loop.
C3_UnknownStatusRepolls ==
    /\ [][fetches' = fetches + 1 /\ UnrecognisedFetched' =>
            /\ pc' = "sleep"
            /\ sleeps' = sleeps + 1
            /\ slept' = 10
            /\ slept' = SleepFor("scraping")
            /\ log' = Append(log, "unknown_status")]_vars
    /\ [][pc = "sleep" => pc' = "poll" /\ fetches' = fetches]_vars
    /\ [](UnrecognisedFetched => pc \in {"sleep", "poll"})

\* A snapshot without a status field was fetched, main has slept and is
\* fetching again after it.
C3_Witness ==
    /\ pc = "poll"
    /\ UnrecognisedFetched
    /\ status_data.status = "missing"
    /\ fetches = 1
    /\ sleeps = 1
    /\ ENABLED Poll

\* C4 (persistence gating): save_crawl_results is called at most once, and
\* only with the non-empty page list of a completed snapshot fetched under
\* a job id; once it has been called there is no further fetch.
C4_PersistenceGating ==
    /\ [](save_calls <= 1)
    /\ [](save_calls = 1 =>
            /\ status_data.kind = "snapshot"
            /\ status_data.status = "completed"
            /\ status_data.has_data
            /\ Len(crawl_data) > 0
            /\ ~Falsy(job_id))
    /\ [](save_calls = 0 => files = {} /\ returned = -1)
    /\ [][save_calls = 1 => fetches' = fetches /\ sleeps' = sleeps]_vars

\* save_crawl_results ran to its end after a scraping and a completed
\* snapshot.
C4_Witness ==
    /\ save_calls = 1
    /\ pc = "done"
    /\ returned >= 0
    /\ fetches = 2

\* C5 (submission failure stops the run): start_crawl makes one remote
\* call; it returns None when the call raised or the response's id is
\* absent or empty, and then main fetches nothing, sleeps never and writes
\* nothing; otherwise every status fetch is made with the id returned.
C5_SubmissionFailureStops ==
    /\ submits <= 1
    /\ (pc # "start" => submits = 1)
    /\ (crawl_result.kind = "raise" => job_id = None)
    /\ (crawl_result.kind = "response" /\ crawl_result.id \in {"absent", ""} =>
            job_id = None)
    /\ (crawl_result.kind = "response" /\ crawl_result.id \in JobIds =>
            job_id = crawl_result.id)
    /\ (pc # "start" /\ job_id = None =>
            /\ pc = "done"
            /\ fetches = 0
            /\ sleeps = 0
            /\ save_calls = 0
            /\ files = {})
    /\ fetch_ids \subseteq {job_id}

\* The submission answered with an empty id and main returned at once.
C5_Witness ==
    /\ pc = "done"
    /\ crawl_result.kind = "response"
    /\ crawl_result.id = ""
    /\ job_id = None
    /\ fetches = 0

\* A fetch that gives a snapshot with status `pending`.
PendingFetch ==
    /\ fetches' = fetches + 1
    /\ status_data'.kind = "snapshot"
    /\ status_data'.status = "pending"

\* C12, as claimed: on a `pending` snapshot main sleeps 10 and polls again
\* as it does for `scraping`, without the unknown-status warning (the
\* scraping branch logs nothing).
C12_PendingLikeScraping ==
    [][PendingFetch =>
          /\ pc' = "sleep"
          /\ sleeps' = sleeps + 1
          /\ slept' = ScrapingSleep
          /\ log' = log]_vars

\* C12, amended: on a `pending` snapshot main sleeps 10, the interval of
\* the scraping branch, and polls again, but through the else branch: the
\* unknown-status warning is logged for `pending`.
C12_PendingWarnsAndRepolls ==
    /\ [][PendingFetch =>
            /\ pc' = "sleep"
            /\ sleeps' = sleeps + 1
            /\ slept' = UnknownSleep
            /\ slept' = ScrapingSleep
            /\ log' = Append(log, "unknown_status")]_vars
    /\ [][pc = "sleep" /\ status_data.status = "pending" => pc' = "poll"]_vars

\* A `pending` snapshot was fetched first; main warned and is asleep.
C12_Witness ==
    /\ pc = "sleep"
    /\ status_data.kind = "snapshot"
    /\ status_data.status = "pending"
    /\ fetches = 1
    /\ Last(log) = "unknown_status"

\* The latest fetch gave a `completed` snapshot without pages: crawl_data
\* receives every non-empty page list of a completed snapshot.
CompletedWithoutPages ==
    /\ status_data.kind = "snapshot"
    /\ status_data.status = "completed"
    /\ crawl_data = <<>>

\* C16: a `completed` snapshot whose data is empty or absent ends the loop
\* normally: the no-data warning is the last message, save_crawl_results is
\* not called, no directory is created, no file is written, and neither
\* an error nor a job failure is reported.
C16_EmptyCompletedEndsNormally ==
    CompletedWithoutPages =>
        /\ pc = "done"
        /\ Last(log) = "no_data_returned"
        /\ save_calls = 0
        /\ ~dir_exists
        /\ files = {}
        /\ returned = -1
        /\ exc = "none"
        /\ "job_failed" \notin Range(log)
        /\ "status_unavailable" \notin Range(log)

\* The second fetch gave a completed snapshot whose data is an empty list.
C16_Witness ==
    /\ CompletedWithoutPages
    /\ status_data.has_data
    /\ fetches = 2
    /\ pc = "done"

\* C17: the loop is left only after a fetch without status, a `completed`
\* snapshot or a `failed` snapshot; while every answer is non-terminal,
\* main alternates one fetch and one sleep of 10 and nothing else happens.
C17_ThreeExitsNoBound ==
    /\ (fetches > 0 /\ pc \notin {"poll", "sleep"} =>
            ~Truthy(status_data) \/ TerminalFetched)
    /\ (pc \in {"poll", "sleep"} /\ fetches > 0 =>
            /\ nonterminal = fetches
            /\ sleeps = fetches
            /\ slept = ScrapingSleep)
    /\ (fetches > 0 /\ nonterminal = fetches =>
            /\ pc \in {"poll", "sleep"}
            /\ save_calls = 0
            /\ returned = -1
            /\ exc = "none")
    /\ sleeps <= fetches
    /\ fetches <= sleeps + 1

\* Every fetch so far was answered with a non-terminal status and main is
\* back at the top of the loop.
C17_Witness ==
    /\ fetches = MaxPolls
    /\ nonterminal = MaxPolls
    /\ sleeps = MaxPolls
    /\ pc = "poll"

\* C19: an empty status response is handled as a failed fetch: the loop
\* ends at once with the status-unavailable message, with no sleep after
\* it, no further fetch and nothing persisted.
C19_EmptyResponseIsFetchFailure ==
    status_data.kind = "empty" =>
        /\ pc = "done"
        /\ Last(log) = "status_unavailable"
        /\ sleeps = fetches - 1
        /\ nonterminal = fetches - 1
        /\ save_calls = 0
        /\ ~dir_exists
        /\ files = {}
        /\ returned = -1

\* The first fetch returned an empty object.
C19_Witness ==
    /\ status_data.kind = "empty"
    /\ fetches = 1
    /\ sleeps = 0
    /\ pc = "done"

\* ======================================================================
\* Properties of Crawler.save_crawl_results (checked under Spec)
\* ======================================================================
\* A record without content: rawHtml absent or empty.
NoContent(page_data) == page_data.rawHtml \in {"absent", ""}
\* Positions of the records without content among the first n.
Skippable(n) == {j \in 1 .. n : NoContent(crawl_data[j])}
\* Positions processed so far with the given outcomes.
Processed(os) == {j \in 1 .. Len(outcomes) : outcomes[j] \in os}
CompleteFiles == {f \in files : f.complete}

\* C6 (partial-failure isolation, persist): while every write attempted so
\* far succeeded, the records without content are skipped (a warning, no
\* count) and each of the others has given one file and one count; when
\* the call returns for N records of which K are without content, N-K
\* files exist and N-K is returned, wherever the K records stand.
C6_SkipIsolation ==
    (save_calls = 1 /\ Processed({"ioerror", "error", "raise"}) = {}) =>
        /\ Processed({"skipped"}) = Skippable(Len(outcomes))
        /\ saved_count = Len(outcomes) - Cardinality(Skippable(Len(outcomes)))
        /\ Cardinality(files) = saved_count
        /\ CompleteFiles = files
        /\ (returned # -1 =>
               /\ Len(outcomes) = Len(crawl_data)
               /\ returned = Len(crawl_data) - Cardinality(Skippable(Len(crawl_data)))
               /\ Cardinality(files) = returned)

\* Two records, the first without content, the second written: 1 returned.
C6_Witness ==
    /\ returned = 1
    /\ Len(crawl_data) = 2
    /\ NoContent(crawl_data[1])
    /\ outcomes = <<"skipped", "saved">>
    /\ Cardinality(files) = 1

\* C7 (write-error isolation): a write that fails, by IOError or by another
\* exception, leaves save_crawl_results in its loop with the count as it
\* was; no exception of a write leaves the call; the call returns after the
\* last record, and what it returns is the number of records whose write
\* succeeded.
C7_WriteErrorIsolation ==
    /\ saved_count = Cardinality(Processed({"saved"}))
    /\ saved_count = Cardinality(CompleteFiles)
    /\ \A f \in CompleteFiles : f.page \in Processed({"saved"})
    /\ (Len(outcomes) > 0 /\ Last(outcomes) \in {"ioerror", "error"} =>
            pc \in {"save", "done"} /\ exc = "none")
    /\ (exc = "AttributeError" => crawl_data[Len(outcomes)].metadata = "null")
    /\ (returned # -1 =>
            /\ Len(outcomes) = Len(crawl_data)
            /\ returned = Cardinality(CompleteFiles))

\* The first write failed with an unexpected exception, the second record
\* was still written and the call returned 1.
C7_Witness ==
    /\ returned = 1
    /\ outcomes = <<"error", "saved">>

\* C11 (unique naming): while every record processed so far had content and
\* was written, there is one file per record and no two of them share a
\* name, so no write replaced an earlier file of the batch; this holds with
\* records that share a source URL and with records that have no metadata
\* or no sourceURL. When the call returns for N such records, N files exist.
C11_UniqueNames ==
    (save_calls = 1 /\ Processed({"saved"}) = 1 .. Len(outcomes)) =>
        /\ Cardinality(files) = Len(outcomes)
        /\ \A f, g \in files : f.page # g.page => f.name # g.name
        /\ \A j \in 1 .. Len(outcomes) : \E f \in files : f.page = j /\ f.complete
        /\ (returned # -1 => Cardinality(files) = Len(crawl_data))

\* Two records with content and the same source URL were saved as two files.
C11_Witness ==
    /\ returned = 2
    /\ crawl_data[1].metadata = "url"
    /\ crawl_data[2].metadata = "url"
    /\ Cardinality(files) = 2

\* C13: an error raised while one page record is processed, reading its
\* metadata included, is a failure of that record only: once records are
\* being processed, save_crawl_results goes on to the next record or
\* returns normally, and no exception leaves it.
C13_PerItemConfinement ==
    (save_calls = 1 /\ Len(outcomes) > 0) =>
        /\ pc \in {"save", "done"}
        /\ exc = "none"
        /\ (pc = "done" => returned # -1 /\ Len(outcomes) = Len(crawl_data))

\* ======================================================================
\* Properties of upload_files_to_r2 (checked under UploadSpec)
\* ======================================================================
\* Attempts so far that ended with one of the given results.
Attempted(rs) == {k \in 1 .. Len(attempts) : attempts[k].result \in rs}
\* One of the four storage settings is empty.
AnyCredentialEmpty ==
    \/ r2.account_id = ""
    \/ r2.bucket_name = ""
    \/ r2.access_key_id = ""
    \/ r2.secret_access_key = ""

\* C8 (partial-failure isolation, upload): at every point of the loop the
\* two counters add up to the number of files attempted, the failure count
\* is the number of attempts that raised, whatever they raised, no file is
\* attempted twice and neither counter decreases during a run; the summary is
\* logged when each of the N listed files has been attempted once, and
\* reports K failures and N-K successes.
C8_UploadIsolation ==
    /\ [](/\ success_count + failure_count = Len(attempts)
          /\ failure_count = Cardinality(Attempted(UploadResults \ {"ok"}))
          /\ success_count = Cardinality(Attempted({"ok"}))
          /\ \A a, b \in 1 .. Len(attempts) :
                a # b => attempts[a].file # attempts[b].file
          /\ \A a \in 1 .. Len(attempts) : attempts[a].file = files_to_upload[a])
    /\ [](summary # <<-1, -1>> =>
            /\ {attempts[k].file : k \in 1 .. Len(attempts)} = HtmlFiles(src_files)
            /\ Len(attempts) = Cardinality(HtmlFiles(src_files))
            /\ summary[2] = Cardinality(Attempted(UploadResults \ {"ok"}))
            /\ summary[1] = Len(attempts) - summary[2])
    /\ [][history' = history =>
            success_count' >= success_count /\ failure_count' >= failure_count]_vars

\* Two files, the first vanished before its upload, the second uploaded:
\* the summary reports one success and one failure.
C8_Witness ==
    /\ summary = <<1, 1>>
    /\ Len(attempts) = 2
    /\ attempts[1].result = "FileNotFoundError"
    /\ attempts[2].result = "ok"

\* C9 (credential short-circuit), as claimed: with any of the account id,
\* the bucket name, the access key id and the secret access key empty,
\* upload_files_to_r2 logs the configuration error and returns with no
\* client created, no file listed and no upload attempted.
C9_CredentialShortCircuit ==
    (AnyCredentialEmpty /\ u_pc # "start") =>
        /\ u_pc = "done"
        /\ u_log = <<"missing_config">>
        /\ client = "none"
        /\ scanned = "no"
        /\ attempts = <<>>

\* C10 (directory short-circuit): with the four settings present and the
\* source path not a directory, upload_files_to_r2 logs the not-found error
\* and returns with no upload attempted; the client is created and the files
\* are listed only after the directory check has passed.
C10_DirectoryShortCircuit ==
    /\ (~AnyCredentialEmpty /\ ~src_is_dir /\ u_pc \notin {"start", "check_dir"} =>
            /\ u_pc = "done"
            /\ Last(u_log) = "dir_not_found"
            /\ attempts = <<>>
            /\ bucket = {})
    /\ (client # "none" \/ scanned # "no" => src_is_dir)
    /\ (~src_is_dir => client = "none" /\ scanned = "no" /\ attempts = <<>>)

\* The settings are complete, the directory is missing and the run is over.
C10_Witness ==
    /\ ~AnyCredentialEmpty
    /\ ~src_is_dir
    /\ u_pc = "done"
    /\ u_log = <<"dir_not_found">>

\* A summary that reports every *.html file of the directory uploaded.
AllUploaded(s) == s = <<Cardinality(HtmlFiles(src_files)), 0>>

\* C18 (upload idempotence): when an earlier run and this run both uploaded
\* every file, the bucket after this run is the bucket the earlier run
\* left: one object per *.html file, under the file's name and holding the
\* file's content, no key twice; and no run changes the local files.
C18_UploadIdempotent ==
    /\ \A k \in 1 .. Len(history) :
          /\ history[k].src_files = src_files
          /\ (AllUploaded(history[k].summary) /\ AllUploaded(summary)) =>
                bucket = history[k].bucket
    /\ AllUploaded(summary) =>
          /\ Cardinality(bucket) = Cardinality(HtmlFiles(src_files))
          /\ \A f \in HtmlFiles(src_files) :
                \E o \in bucket : o.key = f.name /\ o.body = f
          /\ \A o, p \in bucket : o.key = p.key => o = p

\* Two runs over the same two page files, each run uploading both.
C18_Witness ==
    /\ Len(history) = 1
    /\ AllUploaded(history[1].summary)
    /\ AllUploaded(summary)
    /\ Cardinality(HtmlFiles(src_files)) = 2
    /\ Cardinality(bucket) = 2

\* C20: the steps run in the order configuration check, directory check,
\* client creation, listing, uploads; a failed client creation, a failed
\* listing or a listing without *.html file ends the run with no upload
\* attempted; only *.html files directly in the directory are uploaded.
C20_StepOrder ==
    /\ (client # "none" => ~CredentialsMissing(r2) /\ src_is_dir
                              /\ "connecting" \in Range(u_log))
    /\ (scanned # "no" => client = "created")
    /\ (attempts # <<>> => scanned = "ok" /\ files_to_upload # <<>>)
    /\ (client = "failed" \/ scanned = "oserror"
            \/ (scanned = "ok" /\ files_to_upload = <<>>) =>
            /\ u_pc = "done"
            /\ attempts = <<>>
            /\ summary = <<-1, -1>>)
    /\ \A a \in 1 .. Len(attempts) :
          /\ attempts[a].file \in src_files
          /\ attempts[a].file.parent = "."
          /\ attempts[a].file.name[2] = "html"
    /\ \A o \in bucket : o.body.parent = "." /\ o.body.name[2] = "html"

\* A run over a directory holding a page file, another file and a
\* subdirectory with a page file has finished with one upload.
C20_Witness ==
    /\ u_pc = "done"
    /\ [parent |-> "sub", name |-> <<1, "html">>] \in src_files
    /\ [parent |-> ".", name |-> <<1, "txt">>] \in src_files
    /\ Len(attempts) = 1
    /\ summary = <<1, 0>>

\* C14: every run of upload_files_to_r2 that passed the configuration and
\* directory checks ends by reporting its summary of counts, also when no
\* file was listed.
C14_SummaryAlwaysReported ==
    (u_pc = "done" /\ "connecting" \in Range(u_log)) =>
        /\ summary = <<success_count, failure_count>>
        /\ Last(u_log) = "upload_summary"

\* ======================================================================
\* Properties of get_settings (checked under SettingsSpec)
\* ======================================================================
\* C15 (load-once configuration): the first call that succeeds reads the
\* environment, constructs Settings from it and caches it; every later call
\* returns that value and does not read the environment, whatever the
\* environment has become; a call whose construction fails caches nothing
\* and gives the error to its caller.
C15_LoadOnce ==
    /\ Cardinality(values) <= 1
    /\ (cache.kind = "Settings" =>
            /\ values = {cache}
            /\ last = cache
            /\ cache = Settings(read_env)
            /\ env_reads = failures + 1)
    /\ (cache.kind = "none" =>
            /\ values = {}
            /\ failures = calls
            /\ env_reads = calls
            /\ (calls > 0 => last = ValidationError /\ Settings(read_env) = ValidationError))
    /\ (calls > 0 /\ last.kind = "Settings" => cache = last)

\* The second call returned the cached value although the environment
\* had changed to one that gives other settings.
C15_Witness ==
    /\ calls = 2
    /\ env_reads = 1
    /\ last = cache
    /\ cache.kind = "Settings"
    /\ Settings(environ).kind = "Settings"
    /\ Settings(environ) # cache

====
